---- MODULE Spec2Model ----
(***************************************************************************)
(* A model of metadata.py: the VLCPlayer context manager, the MetadataList *)
(* collection with its csv serialisation, and the segment parsing          *)
(* functions timestamp_seconds, segment_seconds and is_valid_segment.      *)
(*                                                                         *)
(* Text is a sequence of one-character strings, so that joining, splitting *)
(* quoting and regular-expression matching are computed character by       *)
(* character.  Python values of several types that meet in one variable    *)
(* are tagged records [t |-> type, v |-> value].                           *)
(***************************************************************************)
EXTENDS Integers, Sequences, FiniteSets, TLC

VARIABLES
    \* segment functions
    string,      \* the argument handed to segment_seconds / is_valid_segment
    origin,      \* the (start, end) pair the argument was rendered from, or <<>>
    segOut,      \* outcome of segment_seconds(string), or NotRun
    validOut,    \* outcome of is_valid_segment(string), or NotRun
    \* VLCPlayer
    uses,        \* one entry per `with VLCPlayer(path)` statement executed
    pc,          \* position of the caller in the current with statement
    \* MetadataList
    items,       \* the list `self` that add_item/get_item/write_to_csv act on
    loaded,      \* a second MetadataList, the target of read_from_csv
    csvfile,     \* the lines of the csv file on disk
    ret          \* outcome of the last MetadataList operation

vars == <<string, origin, segOut, validOut, uses, pc, items, loaded, csvfile, ret>>

segVars == <<string, origin, segOut, validOut>>
playerVars == <<uses, pc>>
listVars == <<items, loaded, csvfile, ret>>

(***************************************************************************)
(* Python values and outcomes                                              *)
(***************************************************************************)

\* Python's None where an integer is expected (timestamp_seconds defaults).
NoneInt == -1

Str(x) == [t |-> "str", v |-> x]
NoneArg == [t |-> "None", v |-> <<>>]
IntArg == [t |-> "int", v |-> <<"7">>]

NotRun == [kind |-> "notrun", exc |-> "", msg |-> "", val |-> <<>>]
Return(x) == [kind |-> "return", exc |-> "", msg |-> "", val |-> x]
Raise(cls, m) == [kind |-> "raise", exc |-> cls, msg |-> m, val |-> <<>>]

\* The two messages segment_seconds puts in its ValueError.
MsgFormat == "Audio timestamp segment format is invalid"
MsgOrder == "Start timestamp must precede end timestamp"

(***************************************************************************)
(* timestamp_seconds                                                       *)
(***************************************************************************)

\* Truth value of an optional integer: None and 0 are false.
IntTruthy(x) == x # NoneInt /\ x # 0

\* A faulty variant of timestamp_seconds: the factors of hours and minutes
\* exchanged.
timestamp_seconds_swapped(seconds, minutes, hours) ==
    LET h == IF IntTruthy(hours) THEN hours * 60 ELSE 0
        m == IF IntTruthy(minutes) THEN minutes * 3600 ELSE 0
        s == IF IntTruthy(seconds) THEN seconds ELSE 0
    IN  h + m + s

timestamp_seconds(seconds, minutes, hours) ==
    LET h == IF IntTruthy(hours) THEN hours * 3600 ELSE 0
        m == IF IntTruthy(minutes) THEN minutes * 60 ELSE 0
        s == IF IntTruthy(seconds) THEN seconds ELSE 0
    IN  h + m + s

(***************************************************************************)
(* The segment pattern                                                     *)
(*   ^(\d{2})?:?([0-5]\d):?([0-5]\d)\s*[-|+;]\s*                           *)
(*    (\d{2})?:?([0-5]\d):?([0-5]\d)$                                      *)
(***************************************************************************)

Digits == {"0", "1", "2", "3", "4", "5", "6", "7", "8", "9"}
LowDigits == {"0", "1", "2", "3", "4", "5"}
Whitespace == {" ", "\t", "\n"}
Separators == {"-", "|", "+", ";"}

DigitVal(c) ==
    CASE c = "0" -> 0 [] c = "1" -> 1 [] c = "2" -> 2 [] c = "3" -> 3
      [] c = "4" -> 4 [] c = "5" -> 5 [] c = "6" -> 6 [] c = "7" -> 7
      [] c = "8" -> 8 [] c = "9" -> 9

DigitChar(n) ==
    CASE n = 0 -> "0" [] n = 1 -> "1" [] n = 2 -> "2" [] n = 3 -> "3"
      [] n = 4 -> "4" [] n = 5 -> "5" [] n = 6 -> "6" [] n = 7 -> "7"
      [] n = 8 -> "8" [] n = 9 -> "9"

\* The character at position i, or "" past either end.
At(s, i) == IF i \in 1..Len(s) THEN s[i] ELSE ""

\* s[i:j+1], with "" for a position past the end.
Slice(s, i, j) == [k \in 1..(j - i + 1) |-> At(s, i + k - 1)]

\* int(x) of a group of decimal digits.
RECURSIVE PyInt(_)
PyInt(x) ==
    IF x = <<>> THEN 0
    ELSE 10 * PyInt(SubSeq(x, 1, Len(x) - 1)) + DigitVal(x[Len(x)])

\* The order in which the matcher tries the optional parts of one timestamp
\* (hours group, first colon, second colon): each is greedy, and on failure
\* the last choice made is the first undone.
Alternatives ==
    << <<TRUE, TRUE, TRUE>>, <<TRUE, TRUE, FALSE>>,
       <<TRUE, FALSE, TRUE>>, <<TRUE, FALSE, FALSE>>,
       <<FALSE, TRUE, TRUE>>, <<FALSE, TRUE, FALSE>>,
       <<FALSE, FALSE, TRUE>>, <<FALSE, FALSE, FALSE>> >>

\* (\d{2})?:?([0-5]\d):?([0-5]\d) at position i under one alternative.
MatchTimestamp(s, i, alt) ==
    LET p1 == IF alt[1] THEN i + 2 ELSE i
        p2 == IF alt[2] THEN p1 + 1 ELSE p1
        p3 == p2 + 2
        p4 == IF alt[3] THEN p3 + 1 ELSE p3
        p5 == p4 + 2
        okH == alt[1] => (At(s, i) \in Digits /\ At(s, i + 1) \in Digits)
        okC1 == alt[2] => At(s, p1) = ":"
        okM == At(s, p2) \in LowDigits /\ At(s, p2 + 1) \in Digits
        okC2 == alt[3] => At(s, p3) = ":"
        okS == At(s, p4) \in LowDigits /\ At(s, p4 + 1) \in Digits
    IN  [ok |-> okH /\ okC1 /\ okM /\ okC2 /\ okS,
         hr |-> IF alt[1] THEN Slice(s, i, i + 1) ELSE <<>>,
         mn |-> Slice(s, p2, p2 + 1),
         sc |-> Slice(s, p4, p4 + 1),
         next |-> p5]

\* \s* : the first position at or after i that holds no whitespace.  What
\* follows \s* in the pattern never matches whitespace, so only the longest
\* run can lead to a match.
RECURSIVE SkipSpaces(_, _)
SkipSpaces(s, i) ==
    IF At(s, i) \in Whitespace THEN SkipSpaces(s, i + 1) ELSE i

\* $ : the end of the string, or just before a newline that ends it.
AtEnd(s, i) == i = Len(s) + 1 \/ (i = Len(s) /\ s[i] = "\n")

\* The pattern from the end timestamp on: en is the end timestamp, st the
\* start timestamp, q1 the position of the separator.
MatchTail(s, st, q1, en) ==
    [ok |-> st.ok /\ At(s, q1) \in Separators /\ en.ok /\ AtEnd(s, en.next),
     groups |-> <<st.hr, st.mn, st.sc, en.hr, en.mn, en.sc>>]

\* The pattern from \s*[-|+;]\s* on, the end timestamp under alternative b.
MatchSeparator(s, st, q1, b) ==
    MatchTail(s, st, q1, MatchTimestamp(s, SkipSpaces(s, q1 + 1), Alternatives[b]))

\* The pattern after the start timestamp st.
MatchAfter(s, st, b) == MatchSeparator(s, st, SkipSpaces(s, st.next), b)

\* The whole pattern with the start timestamp under alternative a and the end
\* timestamp under alternative b.
MatchWith(s, a, b) == MatchAfter(s, MatchTimestamp(s, 1, Alternatives[a]), b)

\* The first of the alternatives that match, in the matcher's order.
FirstHit(hits) ==
    CHOOSE ab \in hits :
        \A cd \in hits : ab[1] < cd[1] \/ (ab[1] = cd[1] /\ ab[2] <= cd[2])

\* The groups of the first of the matching alternatives, or <<>> (None).
GroupsOf(s, hits) ==
    IF hits = {} THEN <<>>
    ELSE MatchWith(s, FirstHit(hits)[1], FirstHit(hits)[2]).groups

\* The alternatives under which the start timestamp matches.
StartHits(s) ==
    {a \in 1..Len(Alternatives) : MatchTimestamp(s, 1, Alternatives[a]).ok}

\* re.search(pattern, string): the groups of the first alternative that
\* matches, or <<>> (None) when none does.
RegexSearch(s) ==
    GroupsOf(s, {ab \in StartHits(s) \X (1..Len(Alternatives)) :
                    MatchWith(s, ab[1], ab[2]).ok})

(***************************************************************************)
(* segment_seconds and is_valid_segment                                    *)
(***************************************************************************)

\* A faulty variant of OrderedPair: the order of start and end not tested.
OrderedPair_unchecked(start, end) == Return(<<start, end>>)

\* The end of segment_seconds: the order test and the return.
OrderedPair(start, end) ==
    IF end < start THEN Raise("ValueError", MsgOrder)
    ELSE Return(<<start, end>>)

\* groups = [int(x) if x else 0 for x in regex.groups()]
GroupInt(x) == IF x # <<>> THEN PyInt(x) ELSE 0

\* segment_seconds from the result of re.search on.
FromSearch(regex) ==
    IF regex = <<>> THEN Raise("ValueError", MsgFormat)
    ELSE OrderedPair(
            timestamp_seconds(GroupInt(regex[3]), GroupInt(regex[2]), GroupInt(regex[1])),
            timestamp_seconds(GroupInt(regex[6]), GroupInt(regex[5]), GroupInt(regex[4])))

\* re.search raises TypeError on an argument that is no string.
segment_seconds(arg) ==
    IF arg.t # "str" THEN Raise("TypeError", "expected string")
    ELSE FromSearch(RegexSearch(arg.v))

\* `not string`: None and the empty string are false.
ArgFalsy(arg) == arg.t = "None" \/ (arg.t = "str" /\ arg.v = <<>>)

\* A faulty variant of Caught: an except clause that names TypeError alone.
Caught_value_error_missed(r) ==
    IF r.kind = "raise" /\ r.exc \in {"TypeError"} THEN Return(FALSE)
    ELSE IF r.kind = "raise" THEN r
    ELSE Return(TRUE)

\* try: segment_seconds(string) / except (ValueError, TypeError): return
\* False / else: return True; any other exception goes on to the caller.
Caught(r) ==
    IF r.kind = "raise" /\ r.exc \in {"ValueError", "TypeError"} THEN Return(FALSE)
    ELSE IF r.kind = "raise" THEN r
    ELSE Return(TRUE)

is_valid_segment(arg) ==
    IF ArgFalsy(arg) THEN Return(TRUE)
    ELSE Caught(segment_seconds(arg))

(***************************************************************************)
(* Arguments the segment functions are applied to                          *)
(***************************************************************************)

\* The hours part of a start timestamp as typed: absent, with and without
\* its colon, a single digit, and a colon alone.
HourParts ==
    { <<>>, <<"0", "1", ":">>, <<"9", "9">>, <<"1", ":">>, <<":">> }

\* The hours part of an end timestamp as typed.
EndHourParts == { <<>>, <<"0", "1", ":">> }

\* The minutes and seconds of a timestamp as typed, well formed and not.
MinSecParts ==
    { <<"0", "0", ":", "0", "0">>, <<"0", "5", ":", "0", "0">>,
      <<"0", "0", ":", "1", "0">>, <<"5", "9", "5", "9">>,
      <<"6", "0", ":", "0", "0">>, <<"5", ":", "0", "0">> }

SeparatorParts ==
    { <<"-">>, <<" ", "-", " ">>, <<"\t", "|">>, <<"+", " ">>, <<";">>,
      <<"x">>, <<>> }

TailParts == { <<>>, <<"\n">> }

TypedTexts ==
    { h1 \o m1 \o sp \o h2 \o m2 \o tl :
        h1 \in HourParts, m1 \in MinSecParts, sp \in SeparatorParts,
        h2 \in EndHourParts, m2 \in MinSecParts, tl \in TailParts }

OtherTexts ==
    { <<>>, <<"n", "o", "t", " ", "a", " ", "s", "e", "g", "m", "e", "n", "t">>,
      <<" ">>, <<"0", "5", ":", "0", "0">>,
      <<"0", "0", ":", "1", "0", "-", "0", "0", ":", "2", "0", "x">> }

SegmentArgs ==
    {Str(x) : x \in TypedTexts \cup OtherTexts} \cup {NoneArg, IntArg}

\* Second counts whose hours fit two digits.
SecondSamples ==
    { h * 3600 + m * 60 + s : h \in {0, 1, 99}, m \in {0, 1, 59}, s \in {0, 9, 10, 59} }

TwoDigits(n) == <<DigitChar(n \div 10), DigitChar(n % 10)>>

\* A second count as "HH:MM:SS".
RenderTimestamp(sec) ==
    TwoDigits(sec \div 3600) \o <<":">> \o TwoDigits((sec % 3600) \div 60)
        \o <<":">> \o TwoDigits(sec % 60)

\* A pair of second counts as "HH:MM:SS-HH:MM:SS".
RenderSegment(start, end) ==
    RenderTimestamp(start) \o <<"-">> \o RenderTimestamp(end)

(***************************************************************************)
(* Specification of the segment functions: an argument is chosen, then     *)
(* segment_seconds and is_valid_segment are applied to it.                 *)
(***************************************************************************)

\* The csv file: whether it exists, its lines, who wrote it last ("disk": it
\* was found on disk; "write_to_csv"), and the list write_to_csv wrote it
\* from, kept to compare with what is read back.
NoFile == [exists |-> FALSE, lines |-> <<>>, origin |-> "none", source |-> <<>>]

IdleList ==
    /\ items = <<>>
    /\ loaded = <<>>
    /\ csvfile = NoFile
    /\ ret = [op |-> "none", kind |-> "none", exc |-> "", idx |-> 0,
              val |-> <<>>, base |-> 0]

InitSegment ==
    /\ \/ string \in SegmentArgs /\ origin = <<>>
       \/ \E start \in SecondSamples, end \in SecondSamples :
             /\ start <= end
             /\ string = Str(RenderSegment(start, end))
             /\ origin = <<start, end>>
    /\ segOut = NotRun
    /\ validOut = NotRun
    /\ uses = <<>> /\ pc = "idle"
    /\ IdleList

CallSegmentSeconds ==
    /\ segOut.kind = "notrun"
    /\ segOut' = segment_seconds(string)
    /\ UNCHANGED <<string, origin, validOut, playerVars, listVars>>

CallIsValidSegment ==
    /\ validOut.kind = "notrun"
    /\ validOut' = is_valid_segment(string)
    /\ UNCHANGED <<string, origin, segOut, playerVars, listVars>>

NextSegment == CallSegmentSeconds \/ CallIsValidSegment

SpecSegment == InitSegment /\ [][NextSegment]_vars

(***************************************************************************)
(* Claims about the segment functions                                      *)
(***************************************************************************)

\* The seconds a timestamp's three groups stand for, an absent group
\* counting zero.
GroupSeconds(hr, mn, sc) == PyInt(hr) * 3600 + PyInt(mn) * 60 + PyInt(sc)

\* C6: for any text, segment_seconds has exactly three outcomes: a ValueError
\* with the format message when the text does not match the pattern; a
\* ValueError with the (different) order message when it matches and the end
\* is strictly before the start; otherwise the pair (start, end) of
\* non-negative integers with end >= start.
SegmentThreeOutcomes ==
    (string.t = "str" /\ segOut.kind # "notrun") =>
        LET g == RegexSearch(string.v)
        IN  IF g = <<>>
            THEN segOut.kind = "raise" /\ segOut.exc = "ValueError"
                    /\ segOut.msg = MsgFormat
            ELSE
            LET st == GroupSeconds(g[1], g[2], g[3])
                en == GroupSeconds(g[4], g[5], g[6])
            IN  IF en < st
                THEN segOut.kind = "raise" /\ segOut.exc = "ValueError"
                        /\ segOut.msg = MsgOrder /\ segOut.msg # MsgFormat
                ELSE segOut.kind = "return"
                        /\ segOut.val = <<st, en>>
                        /\ segOut.val[1] \in Nat /\ segOut.val[2] \in Nat
                        /\ segOut.val[2] >= segOut.val[1]

\* Witness of C6: a text that matches the pattern with its end before its
\* start has been parsed, and the order error raised.
SegmentOrderErrorReached ==
    /\ string.t = "str"
    /\ RegexSearch(string.v) # <<>>
    /\ segOut.kind = "raise"
    /\ segOut.msg = MsgOrder

\* C7: a pair start <= end rendered as "HH:MM:SS-HH:MM:SS" parses back to
\* exactly (start, end); and whatever text parses, each timestamp counts
\* hours*3600 + minutes*60 + seconds, an absent hours group counting zero.
SegmentRoundTrip ==
    /\ (origin # <<>> /\ segOut.kind # "notrun") =>
          (segOut.kind = "return" /\ segOut.val = origin)
    /\ (string.t = "str" /\ segOut.kind = "return") =>
          LET g == RegexSearch(string.v)
          IN  /\ segOut.val[1] = GroupSeconds(g[1], g[2], g[3])
              /\ segOut.val[2] = GroupSeconds(g[4], g[5], g[6])
              /\ (g[1] = <<>> => segOut.val[1] < 3600)

\* Witness of C7: a rendered pair with hours, minutes and seconds all
\* non-zero in its start, and a later end, has been parsed.
SegmentRoundTripReached ==
    /\ origin # <<>>
    /\ segOut.kind = "return"
    /\ origin[1] > 3600 /\ origin[1] % 3600 > 60 /\ origin[1] % 60 > 0
    /\ origin[1] < origin[2]

\* C8: is_valid_segment never raises; it returns TRUE for the empty text,
\* and for a non-empty text it returns TRUE exactly when segment_seconds
\* returns, FALSE when segment_seconds raises.
ValidIffParses ==
    validOut.kind # "notrun" =>
        /\ validOut.kind = "return"
        /\ validOut.val \in BOOLEAN
        /\ (string.t = "str" /\ string.v = <<>>) => validOut.val = TRUE
        /\ (string.t = "str" /\ string.v # <<>>) =>
              (validOut.val = TRUE <=> segment_seconds(string).kind = "return")

\* Witness of C8: a non-empty text on which segment_seconds raised the order
\* error has been validated, and the answer was FALSE.
ValidRejectsReached ==
    /\ string.t = "str" /\ string.v # <<>>
    /\ segOut.kind = "raise" /\ segOut.msg = MsgOrder
    /\ validOut.kind = "return" /\ validOut.val = FALSE

(***************************************************************************)
(* VLCPlayer                                                               *)
(*                                                                         *)
(* The caller runs `with VLCPlayer(path): body` statements one after the   *)
(* other.  uses[i] records what the i-th statement did to its sink (the    *)
(* file opened on os.devnull) and to its child process.                    *)
(***************************************************************************)

\* How many with statements the caller runs.
MaxUses == 3

Paths == {"a.mp3", "b.mp3"}

IdleSegment ==
    string = NoneArg /\ origin = <<>> /\ segOut = NotRun /\ validOut = NotRun

\* VLCPlayer(path): nothing is opened or spawned yet.
NewPlayer(path) ==
    [path |-> path, sinkOpen |-> FALSE, closes |-> 0, spawned |-> FALSE,
     terms |-> 0, pending |-> "", raised |-> ""]

\* self.devnull = open(os.devnull, 'w')
OpenSink(u) == [u EXCEPT !.sinkOpen = TRUE]

\* self.vlc = subprocess.Popen(['vlc', self.path], ...)
Spawn(u) == [u EXCEPT !.spawned = TRUE]

\* self.vlc.terminate(): Popen.terminate asks the child to end and returns
\* at once (it does nothing when the child has ended already); terms counts
\* the calls.
Terminate(u) == [u EXCEPT !.terms = @ + 1]

\* self.devnull.close(); closes counts the calls.
CloseSink(u) == [u EXCEPT !.sinkOpen = FALSE, !.closes = @ + 1]

\* A faulty variant of OnExit: the sink is not closed.
OnExit_no_close(u) == [Terminate(u) EXCEPT !.raised = u.pending]

\* __exit__: terminate the child, close the sink, and return None, so that an
\* exception of the body goes on to the caller.
OnExit(u) == [CloseSink(Terminate(u)) EXCEPT !.raised = u.pending]

InitPlayer ==
    /\ uses = <<>>
    /\ pc = "idle"
    /\ IdleSegment
    /\ IdleList

\* `with VLCPlayer(path)`: __init__, then __enter__.  Popen raises OSError
\* when the player cannot be started (vlc is not installed, for one); the
\* with statement then runs neither its body nor __exit__.
Enter(path, spawnOk) ==
    /\ pc \in {"idle", "left"}
    /\ Len(uses) < MaxUses
    /\ LET u == OpenSink(NewPlayer(path))
       IN  IF spawnOk
           THEN uses' = Append(uses, Spawn(u)) /\ pc' = "active"
           ELSE uses' = Append(uses, [u EXCEPT !.raised = "OSError"])
                   /\ pc' = "left"
    /\ UNCHANGED <<segVars, listVars>>

\* The body of the with statement ends, normally or by raising.
Body(error) ==
    /\ pc = "active"
    /\ uses' = [uses EXCEPT ![Len(uses)].pending = error]
    /\ pc' = "exiting"
    /\ UNCHANGED <<segVars, listVars>>

\* The with statement calls __exit__ on the way out.
Exit ==
    /\ pc = "exiting"
    /\ uses' = [uses EXCEPT ![Len(uses)] = OnExit(@)]
    /\ pc' = "left"
    /\ UNCHANGED <<segVars, listVars>>

NextPlayer ==
    \/ \E path \in Paths, spawnOk \in BOOLEAN : Enter(path, spawnOk)
    \/ \E error \in {"", "KeyboardInterrupt", "ValueError"} : Body(error)
    \/ Exit

SpecPlayer == InitPlayer /\ [][NextPlayer]_vars

\* The i-th with statement has been left.
ScopeLeft(i) == i < Len(uses) \/ pc = "left"

\* C1: every with statement that became active (its child was spawned) and
\* has been left, normally or by an exception of its body, has sent its
\* child one terminate signal and closed its sink exactly once.
ActiveScopeReleased ==
    \A i \in 1..Len(uses) :
        (uses[i].spawned /\ ScopeLeft(i)) =>
            /\ uses[i].terms = 1
            /\ uses[i].closes = 1
            /\ ~uses[i].sinkOpen
            /\ uses[i].raised = uses[i].pending

\* Witness of C1: an active with statement has been left by an exception of
\* its body, after an earlier one was left normally.
UnwoundScopeReached ==
    /\ Len(uses) >= 2
    /\ pc = "left"
    /\ uses[1].spawned /\ uses[1].pending = ""
    /\ uses[Len(uses)].spawned /\ uses[Len(uses)].raised = "ValueError"

\* C10: once a with statement has been left, by whatever path, its sink is
\* not open.
SinkClosedOnceScopeLeft ==
    \A i \in 1..Len(uses) : ScopeLeft(i) => ~uses[i].sinkOpen

(***************************************************************************)
(* MetadataList: text, dictionaries and the csv layer                      *)
(*                                                                         *)
(* An element of a text is one character, or a run of ordinary characters  *)
(* (no quote, comma, semicolon or line break) kept as one unit, such as    *)
(* "filepath" or "t.mp3".  A Metadata dictionary is a function from keys   *)
(* (texts) to tagged values Str(text), List(sequence of texts) or NoneArg. *)
(***************************************************************************)

List(xs) == [t |-> "list", v |-> xs]

Quote == "\""
Comma == ","
Semicolon == ";"

\* MetadataList.KEYS
KEYS ==
    << <<"filepath">>, <<"event_name">>, <<"title">>, <<"speakers">>,
       <<"segments">> >>

KeySet == {KEYS[i] : i \in 1..Len(KEYS)}

\* The truth value of a str or list or None: empty and None are false.
Truthy(val) == val.t # "None" /\ val.v # <<>>

\* a == b between values that may differ in type.
PyEq(a, b) == a.t = b.t /\ a.v = b.v

\* sep.join(list)
RECURSIVE Join(_, _)
Join(list, sep) ==
    IF list = <<>> THEN <<>>
    ELSE IF Len(list) = 1 THEN list[1]
    ELSE list[1] \o sep \o Join(Tail(list), sep)

\* text.split(c)
RECURSIVE Split(_, _)
Split(text, c) ==
    IF \A i \in 1..Len(text) : text[i] # c THEN <<text>>
    ELSE
    LET pos == CHOOSE i \in 1..Len(text) :
                  text[i] = c /\ \A j \in 1..(i - 1) : text[j] # c
    IN  <<SubSeq(text, 1, pos - 1)>> \o Split(SubSeq(text, pos + 1, Len(text)), c)

\* csv.writer with QUOTE_ALL: a field between quotes, its own quotes doubled.
RECURSIVE DoubleQuotes(_)
DoubleQuotes(text) ==
    IF text = <<>> THEN <<>>
    ELSE (IF Head(text) = Quote THEN <<Quote, Quote>> ELSE <<Head(text)>>)
            \o DoubleQuotes(Tail(text))

QuoteField(text) == <<Quote>> \o DoubleQuotes(text) \o <<Quote>>

\* writer.writerow: the quoted fields joined by commas.
WriteRow(cells) ==
    Join([i \in 1..Len(cells) |-> QuoteField(cells[i])], <<Comma>>)

\* csv.reader on one line: the parser's states are start_field, in_field,
\* in_quoted and quote_in_quoted.
RECURSIVE ParseFrom(_, _, _, _, _)
ParseFrom(line, i, state, cur, fields) ==
    IF i > Len(line)
    THEN IF line = <<>> THEN <<>> ELSE Append(fields, cur)
    ELSE
    LET c == line[i]
    IN  CASE state = "start_field" ->
                IF c = Quote THEN ParseFrom(line, i + 1, "in_quoted", <<>>, fields)
                ELSE IF c = Comma
                THEN ParseFrom(line, i + 1, "start_field", <<>>, Append(fields, <<>>))
                ELSE ParseFrom(line, i + 1, "in_field", <<c>>, fields)
          [] state = "in_field" ->
                IF c = Comma
                THEN ParseFrom(line, i + 1, "start_field", <<>>, Append(fields, cur))
                ELSE ParseFrom(line, i + 1, "in_field", Append(cur, c), fields)
          [] state = "in_quoted" ->
                IF c = Quote
                THEN ParseFrom(line, i + 1, "quote_in_quoted", cur, fields)
                ELSE ParseFrom(line, i + 1, "in_quoted", Append(cur, c), fields)
          [] state = "quote_in_quoted" ->
                IF c = Quote
                THEN ParseFrom(line, i + 1, "in_quoted", Append(cur, c), fields)
                ELSE IF c = Comma
                THEN ParseFrom(line, i + 1, "start_field", <<>>, Append(fields, cur))
                ELSE ParseFrom(line, i + 1, "in_field", Append(cur, c), fields)

ParseLine(line) == ParseFrom(line, 1, "start_field", <<>>, <<>>)

\* The key csv.DictReader files the cells beyond the header under (None).
RestKey == <<"<None>">>

\* csv.DictReader: dict(zip(fieldnames, row)); a header cell with no cell in
\* the row gets None, the cells beyond the header go under the key None.
DictReaderRow(fieldnames, row) ==
    LET lf == Len(fieldnames)
        lr == Len(row)
        n == IF lf < lr THEN lf ELSE lr
        names == {fieldnames[i] : i \in 1..lf}
        zipped == [k \in names |->
                      IF \E i \in (lr + 1)..lf : fieldnames[i] = k
                      THEN NoneArg
                      ELSE Str(row[CHOOSE i \in 1..n :
                                  /\ fieldnames[i] = k
                                  /\ \A j \in (i + 1)..n : fieldnames[j] # k])]
    IN  IF lr > lf
        THEN zipped @@ (RestKey :> List(SubSeq(row, lf + 1, lr)))
        ELSE zipped

(***************************************************************************)
(* MetadataList operations                                                 *)
(***************************************************************************)

\* The outcome of an operation: what it returned (idx: the position in the
\* list of the record returned, 0 for None; val: a value returned) or what
\* it raised; base: the length of the target list before the operation.
Outcome(op, kind, exc, idx, val, base) ==
    [op |-> op, kind |-> kind, exc |-> exc, idx |-> idx, val |-> val, base |-> base]

NoOutcome == Outcome("none", "none", "", 0, <<>>, 0)

\* Metadata(data): a dict holding just what data holds.
Metadata(data) == data

\* `if item`: a dict is true when it holds at least one key.
DictTruthy(d) == DOMAIN d # {}

\* get_item: the scan from position i on.  item[key] raises KeyError on a
\* non-empty item without the key.
RECURSIVE GetItemFrom(_, _, _, _)
GetItemFrom(list, key, value, i) ==
    IF i > Len(list) THEN Outcome("get_item", "return", "", 0, <<>>, Len(list))
    ELSE IF ~DictTruthy(list[i]) THEN GetItemFrom(list, key, value, i + 1)
    ELSE IF key \notin DOMAIN list[i]
    THEN Outcome("get_item", "raise", "KeyError", 0, <<>>, Len(list))
    ELSE IF PyEq(list[i][key], value)
    THEN Outcome("get_item", "return", "", i, <<>>, Len(list))
    ELSE GetItemFrom(list, key, value, i + 1)

get_item(list, key, value) == GetItemFrom(list, key, value, 1)

\* The row write_to_csv builds for one record, as the cells DictWriter
\* writes for it: a key the row lacks is written as the empty cell.
RowCells(metadata) ==
    << metadata[<<"filepath">>].v,
       metadata[<<"event_name">>].v,
       metadata[<<"title">>].v,
       IF Truthy(metadata[<<"speakers">>])
       THEN Join(metadata[<<"speakers">>].v, <<Semicolon>>) ELSE <<>>,
       IF Truthy(metadata[<<"segments">>])
       THEN Join(metadata[<<"segments">>].v, <<Semicolon>>) ELSE <<>> >>

\* The loop of write_to_csv over the list: the lines of the rows, and whether
\* a record lacked a key (KeyError, raised before the file is opened).
RECURSIVE BuildRows(_, _)
BuildRows(list, i) ==
    IF i > Len(list) THEN [ok |-> TRUE, lines |-> <<>>]
    ELSE IF ~DictTruthy(list[i]) THEN BuildRows(list, i + 1)
    ELSE IF ~(KeySet \subseteq DOMAIN list[i]) THEN [ok |-> FALSE, lines |-> <<>>]
    ELSE
    LET rest == BuildRows(list, i + 1)
    IN  [ok |-> rest.ok,
         lines |-> IF rest.ok THEN <<WriteRow(RowCells(list[i]))>> \o rest.lines
                   ELSE <<>>]

\* The loop of read_from_csv over the lines after the header: the records
\* added until the end or the first exception.
RECURSIVE ReadRows(_, _, _)
ReadRows(fieldnames, lines, i) ==
    IF i > Len(lines) THEN [exc |-> "", recs |-> <<>>]
    ELSE
    LET cells == ParseLine(lines[i])
        row == DictReaderRow(fieldnames, cells)
    IN  IF cells = <<>> THEN ReadRows(fieldnames, lines, i + 1)
        ELSE IF <<"speakers">> \notin DOMAIN row THEN [exc |-> "KeyError", recs |-> <<>>]
        ELSE IF row[<<"speakers">>].t # "str"
        THEN [exc |-> "AttributeError", recs |-> <<>>]
        ELSE IF <<"segments">> \notin DOMAIN row THEN [exc |-> "KeyError", recs |-> <<>>]
        ELSE IF row[<<"segments">>].t # "str"
        THEN [exc |-> "AttributeError", recs |-> <<>>]
        ELSE
        LET rec == [k \in DOMAIN row |->
                      IF k \in {<<"speakers">>, <<"segments">>}
                      THEN List(Split(row[k].v, Semicolon))
                      ELSE row[k]]
            rest == ReadRows(fieldnames, lines, i + 1)
        IN  [exc |-> rest.exc, recs |-> <<Metadata(rec)>> \o rest.recs]

\* Metadata.toId3
toId3(metadata) ==
    IF {<<"title">>, <<"speakers">>, <<"event_name">>} \subseteq DOMAIN metadata
    THEN Outcome("toId3", "return", "", 0,
                 [title |-> metadata[<<"title">>].v,
                  artist |-> Join(metadata[<<"speakers">>].v, <<Comma, " ">>),
                  album |-> metadata[<<"event_name">>].v], 0)
    ELSE Outcome("toId3", "raise", "KeyError", 0, <<>>, 0)

(***************************************************************************)
(* Specification of MetadataList: records are added to `items`, looked up, *)
(* projected with toId3 and written to the csv file; the csv file, written *)
(* by write_to_csv or found on disk, is read into `loaded`.                *)
(***************************************************************************)

\* How many records add_item is given.
MaxItems == 2

Dict5(filepath, event_name, title, speakers, segments) ==
    (<<"filepath">> :> Str(filepath)) @@ (<<"event_name">> :> Str(event_name))
        @@ (<<"title">> :> Str(title)) @@ (<<"speakers">> :> List(speakers))
        @@ (<<"segments">> :> List(segments))

\* What add_item is given: nothing, all five fields (several speakers and
\* segments, or none; a speaker that holds a semicolon; a title that holds a
\* quote and a comma), and the filepath alone.
DataChoices ==
    { <<>>,
      Dict5(<<"t.mp3">>, <<"E">>, <<"T">>, << <<"A">>, <<"B">> >>,
            << <<"00:10-00:20">> >>),
      Dict5(<<"t.mp3">>, <<"E">>, <<"T2">>, <<>>, <<>>),
      Dict5(<<"a.mp3">>, <<"E">>, <<"T", Comma, Quote, "x">>,
            << <<"A", Semicolon, "B">> >>,
            << <<"00:10-05:00">>, <<"10:00-12:30">> >>),
      (<<"filepath">> :> Str(<<"a.mp3">>)) }

\* What get_item is asked for.
GetChoices ==
    { << <<"filepath">>, Str(<<"t.mp3">>) >>,
      << <<"filepath">>, Str(<<"z.mp3">>) >>,
      << <<"title">>, Str(<<"T2">>) >>,
      << <<"speakers">>, List(<<>>) >>,
      << <<"year">>, Str(<<"1999">>) >> }

\* Files found on disk: a header, quoted or plain, and no row or one row.
Headers ==
    { KEYS,
      << <<"filepath">>, <<"event_name">>, <<"name">>, <<"speakers">>,
         <<"segments">> >>,
      << <<"filepath">>, <<"event_name">>, <<"title">>, <<"segments">> >>,
      KEYS \o << <<"year">> >> }

SampleCells ==
    << <<"a.mp3">>, <<"E">>, <<"T">>, <<"A", Semicolon, "B">>, <<>>,
       <<"1999">> >>

PlainRow(cells) == Join(cells, <<Comma>>)

FilesOnDisk ==
    { [exists |-> TRUE, origin |-> "disk", source |-> <<>>,
       lines |-> <<IF quoted THEN WriteRow(h) ELSE PlainRow(h)>>
                    \o [i \in 1..n |-> WriteRow(SubSeq(SampleCells, 1, w))]] :
        h \in Headers, quoted \in BOOLEAN, n \in 0..1, w \in 3..6 }

InitList ==
    /\ items = <<>>
    /\ loaded = <<>>
    /\ csvfile \in {NoFile} \cup FilesOnDisk
    /\ ret = NoOutcome
    /\ IdleSegment
    /\ uses = <<>> /\ pc = "idle"

\* add_item(data)
AddItem(data) ==
    /\ Len(items) < MaxItems
    /\ items' = Append(items, Metadata(data))
    /\ ret' = Outcome("add_item", "return", "", Len(items) + 1, data, Len(items))
    /\ UNCHANGED <<loaded, csvfile, segVars, playerVars>>

\* get_item(key, value)
GetItem(key, value) ==
    /\ ret' = [get_item(items, key, value) EXCEPT !.val = <<key, value>>]
    /\ UNCHANGED <<items, loaded, csvfile, segVars, playerVars>>

\* items[i].toId3()
ToId3(i) ==
    /\ ret' = [toId3(items[i]) EXCEPT !.idx = i]
    /\ UNCHANGED <<items, loaded, csvfile, segVars, playerVars>>

\* write_to_csv(output_csv): the rows are built first; the file is opened
\* for writing, and so emptied, only after that.
WriteToCsv ==
    /\ LET built == BuildRows(items, 1)
       IN  IF built.ok
           THEN /\ csvfile' = [exists |-> TRUE, origin |-> "write_to_csv",
                               source |-> items,
                               lines |-> <<WriteRow(KEYS)>> \o built.lines]
                /\ ret' = Outcome("write_to_csv", "return", "", 0, <<>>, Len(items))
           ELSE /\ csvfile' = csvfile
                /\ ret' = Outcome("write_to_csv", "raise", "KeyError", 0, <<>>,
                                  Len(items))
    /\ UNCHANGED <<items, loaded, segVars, playerVars>>

\* loaded.read_from_csv(input_csv)
ReadFromCsv ==
    /\ Len(loaded) < MaxItems
    /\ IF ~csvfile.exists
       THEN /\ loaded' = loaded
            /\ ret' = Outcome("read_from_csv", "raise", "FileNotFoundError", 0,
                              <<>>, Len(loaded))
       ELSE LET fieldnames == IF csvfile.lines = <<>> THEN <<>>
                              ELSE ParseLine(csvfile.lines[1])
                read == ReadRows(fieldnames, csvfile.lines, 2)
            IN  /\ loaded' = loaded \o read.recs
                /\ ret' = Outcome("read_from_csv",
                                  IF read.exc = "" THEN "return" ELSE "raise",
                                  read.exc, 0, <<>>, Len(loaded))
    /\ UNCHANGED <<items, csvfile, segVars, playerVars>>

NextList ==
    \/ \E data \in DataChoices : AddItem(data)
    \/ \E kv \in GetChoices : GetItem(kv[1], kv[2])
    \/ \E i \in 1..Len(items) : ToId3(i)
    \/ WriteToCsv
    \/ ReadFromCsv

SpecList == InitList /\ [][NextList]_vars

(***************************************************************************)
(* Claims about MetadataList                                               *)
(***************************************************************************)

\* The text of field k of a record, empty when the record has no such field.
FieldText(rec, k) == IF k \in DOMAIN rec THEN rec[k].v ELSE <<>>

\* The cells serialize is to write for a record: the three texts, then the
\* speakers and the segments each joined with ';'.
SpecCells(rec) ==
    << FieldText(rec, <<"filepath">>), FieldText(rec, <<"event_name">>),
       FieldText(rec, <<"title">>),
       Join(FieldText(rec, <<"speakers">>), <<Semicolon>>),
       Join(FieldText(rec, <<"segments">>), <<Semicolon>>) >>

\* Record b is record a as the round trip is to give it back: equal texts,
\* equal sequences, an empty sequence coming back as one empty text.
SameAfterRoundTrip(a, b) ==
    /\ KeySet \subseteq DOMAIN a
    /\ KeySet \subseteq DOMAIN b
    /\ \A k \in {<<"filepath">>, <<"event_name">>, <<"title">>} :
          PyEq(a[k], b[k])
    /\ \A k \in {<<"speakers">>, <<"segments">>} :
          /\ b[k].t = "list"
          /\ b[k].v = IF a[k].v = <<>> THEN << <<>> >> ELSE a[k].v

\* C2: a collection written by write_to_csv and read by read_from_csv into
\* an empty collection comes back with as many records, in the same order,
\* each with equal fields, except that an empty speakers or segments comes
\* back as one empty text.
RoundTripReproduces ==
    (ret.op = "read_from_csv" /\ ret.base = 0 /\ csvfile.origin = "write_to_csv") =>
        /\ ret.kind = "return"
        /\ Len(loaded) = Len(csvfile.source)
        /\ \A i \in 1..Len(loaded) :
              i <= Len(csvfile.source)
                  /\ SameAfterRoundTrip(csvfile.source[i], loaded[i])

\* C3: write_to_csv writes the header row and then one row per record of
\* the collection, in order, with the cells filepath, event_name, title,
\* speakers joined with ';', segments joined with ';'; a record added with
\* no initial fields produces a row too.
SerializeOneRowPerRecord ==
    ret.op = "write_to_csv" =>
        /\ ret.kind = "return"
        /\ csvfile.origin = "write_to_csv"
        /\ csvfile.lines =
              <<WriteRow(KEYS)>>
                  \o [i \in 1..Len(items) |-> WriteRow(SpecCells(items[i]))]

\* C4: read_from_csv of a file whose header is not the expected field set
\* fails, and adds no record to the collection.
BadHeaderRejected ==
    (/\ ret.op = "read_from_csv"
     /\ csvfile.exists
     /\ csvfile.lines # <<>>
     /\ LET header == ParseLine(csvfile.lines[1])
        IN  {header[i] : i \in 1..Len(header)} # KeySet) =>
        /\ ret.kind = "raise"
        /\ Len(loaded) = ret.base

\* C5: get_item returns the first record, in insertion order, whose field
\* key equals value, and None when there is none, also when some record has
\* no field key; it never raises.
GetItemFirstMatchOrNone ==
    ret.op = "get_item" =>
        LET key == ret.val[1]
            value == ret.val[2]
            matches == {i \in 1..Len(items) :
                           key \in DOMAIN items[i] /\ PyEq(items[i][key], value)}
        IN  /\ ret.kind = "return"
            /\ ret.idx = IF matches = {} THEN 0
                         ELSE CHOOSE i \in matches : \A j \in matches : i <= j

\* C9: add_item appends, as the last element, a record in which all five
\* fields are present, the fields given with the values given; it returns
\* that record; and toId3 succeeds on every record of the collection.
AddBuildsCompleteRecord ==
    /\ ret.op = "add_item" =>
          /\ Len(items) = ret.base + 1
          /\ ret.idx = Len(items)
          /\ KeySet \subseteq DOMAIN items[ret.idx]
          /\ \A k \in DOMAIN ret.val : PyEq(items[ret.idx][k], ret.val[k])
    /\ ret.op = "toId3" => ret.kind = "return"

====
